---- MODULE Spec2Model ----
(***************************************************************************)
(* Model of core/types/puissant.go: PuissantPackage and its comparisons,   *)
(* the merged queue puissantTxQueue with its comparator, and the           *)
(* TransactionsPuissant controller (NewTransactionsPuissant, ResetEnable,  *)
(* Copy, Peek, Shift, Pop).                                                *)
(*                                                                         *)
(* Go slices, maps and sets are reference values.  The model keeps them in *)
(* three small heaps (arrs, maps, sets) and a controller holds references  *)
(* into them, so that sharing between a controller and its Copy is         *)
(* something the model can express.  A queue slice is (backing array,      *)
(* offset): Pop reslices [1:], Shift writes element 0 and sorts in place.  *)
(***************************************************************************)
EXTENDS Integers, Sequences, FiniteSets, TLC

VARIABLES
    arrs,      \* heap of queue backing arrays: object id -> sequence of transactions
    maps,      \* heap of backlog maps: object id -> [account -> remaining transactions]
    sets,      \* heap of enabled sets: object id -> set of package ids
    ctl,       \* controller -> [live, arr, off, map, set]
    fault,     \* a Go run-time panic has happened (the program is gone)
    lastOn,    \* the controller the last call was made on ("none" at first)
    watch,     \* whether this run records the history of controller "t" (below)
    peekLog,   \* transactions Peek returned on controller "t", in order, repeats collapsed
    consumed,  \* transactions that Shift on "t" replaced by their account's next one
    phase,     \* where the consumer of "t" stands: see the calls below
    promoted,  \* the transaction the one Shift since the last returning Peek pulled in
    strict,    \* so far the consumer of "t" has only set the enabled set, then looped
               \* Peek, Shift (a Shift only after a Peek that returned a transaction)
    given,     \* the identifiers the most recent ResetEnable on "t" was given (none at first)
    purged,    \* the transactions a Peek on "t" popped because their package was not enabled
    dropped,   \* account keys NewTransactionsPuissant deleted from the caller's map
    input,     \* what the constructor was given: [mismatched, heads, packaged, total] (below)
    pk,        \* the last package comparison: [op, a, b, bump, res]
    cmp        \* the last comparisons of queue entries: [op, x, y, z, xx, xy, yx, yz, zy, xz, zx]

vars == <<arrs, maps, sets, ctl, fault, lastOn, watch, peekLog, consumed, phase, promoted, strict, given, purged, dropped, input, pk, cmp>>

(***************************************************************************)
(* Bounds of the model.                                                    *)
(***************************************************************************)
MaxBacklog == 2     \* longest per-account input list
MaxPkgLen == 2      \* most transactions in one package
MaxTxs == 3         \* most transactions in one input, accounts and packages together
MaxCopyTxs == 2     \* the same, in the runs that take a Copy

Accounts == {"A", "B"}
Pids == {"P1", "P2"}
GasPrices == {5, 7}
PlainKinds == {<<7, 1>>, <<5, 1>>, <<5, 2>>}     \* (gas price, time) of a plain transaction
Ctls == {"t", "c"}
Objs == {"o1", "o2"}

NoPid == "none"
PkgSeq == [P1 |-> 1, P2 |-> 2]

(***************************************************************************)
(* Transactions.  key/idx name the input list (account key or package id)  *)
(* and the position in it: two transactions are the same object iff they   *)
(* agree on (key, idx).                                                    *)
(***************************************************************************)
Nil == [key |-> "nil", idx |-> 0, gp |-> 0, time |-> 0, from |-> "nil",
        pid |-> NoPid, pseq |-> 0, inner |-> 0]

PlainTx(k, i, g, tm, f) ==
    [key |-> k, idx |-> i, gp |-> g, time |-> tm, from |-> f,
     pid |-> NoPid, pseq |-> 0, inner |-> 0]

PkgTx(p, i, g) ==
    [key |-> p, idx |-> i, gp |-> g, time |-> 0, from |-> "X",
     pid |-> p, pseq |-> PkgSeq[p], inner |-> i - 1]

\* Transaction accessors used by puissant.go
GasPrice(tx) == tx.gp
Time(tx) == tx.time
Sender(tx) == tx.from
PuissantID(tx) == tx.pid
PidIsPuissant(pid) == pid # NoPid
IsPuissant(tx) == PidIsPuissant(tx.pid)
PuissantInfo(tx) == [id |-> tx.pid, seq |-> tx.pseq, inner |-> tx.inner]

(***************************************************************************)
(* PuissantPackage comparisons.  A *big.Int is [nil, v]; a package is its  *)
(* bidGasPrice.  A uint64 is [hi, lo], the number hi * 2^64 + lo, with     *)
(* hi = 0 and lo >= 0 small, or hi = 1 and lo < 0 small (2^64 - 1 is       *)
(* [hi |-> 1, lo |-> -1]); the exact products of the comparison are kept   *)
(* in the same form.  A call ends in a value or in a run-time panic.       *)
(***************************************************************************)
NilBig == [nil |-> TRUE, v |-> 0]
Big(n) == [nil |-> FALSE, v |-> n]
Panic == [panic |-> TRUE, val |-> FALSE]
Returns(b) == [panic |-> FALSE, val |-> b]

\* int64(u): the low 64 bits of u read as two's complement, so hi * 2^64 drops out
Int64(u) == u.lo

\* x.Cmp(y) of math/big: equal pointers (two nils) compare 0 without reading them in
\* current toolchains and are read in older ones; reading a nil *big.Int panics.
\* The set of outcomes: "panic", or the sign of x - y.
CmpOutcomes(x, y) ==
    IF x.nil /\ y.nil THEN {"panic", "eq"}
    ELSE IF x.nil \/ y.nil THEN {"panic"}
    ELSE IF x.v > y.v THEN {"gt"} ELSE IF x.v < y.v THEN {"lt"} ELSE {"eq"}

\* new(big.Int).Mul(x, big.NewInt(k)): reading a nil x panics
MulOutcome(x, k) == IF x.nil THEN [panic |-> TRUE, v |-> 0] ELSE [panic |-> FALSE, v |-> x.v * k]

HigherBidGasPrice(pp, with) ==
    {IF o = "panic" THEN Panic ELSE Returns(o = "gt") : o \in CmpOutcomes(pp, with)}

HigherBidGasPriceIntCmp(pp, with) ==
    {IF o = "panic" THEN Panic ELSE Returns(o = "gt") : o \in CmpOutcomes(pp, with)}

ReplacedByNewPuissant(pp, np, priceBump) ==
    LET oldP == MulOutcome(pp, 100 + Int64(priceBump))
        newP == MulOutcome(np, 100)
    IN IF oldP.panic \/ newP.panic THEN {Panic}
       ELSE {Returns(newP.v > oldP.v)}

\* PuissantPackages.Less(i, j)
PackagesLess(p, i, j) == HigherBidGasPrice(p[i], p[j])

(***************************************************************************)
(* puissantTxQueue.Less, on two queue entries.                             *)
(***************************************************************************)
\* (variant: innerSequence compared the wrong way round)
bundleSortInnerDesc(txI, txJ) ==
    IF PuissantInfo(txI).seq = PuissantInfo(txJ).seq
    THEN PuissantInfo(txI).inner > PuissantInfo(txJ).inner
    ELSE PuissantInfo(txI).seq < PuissantInfo(txJ).seq

bundleSort(txI, txJ) ==
    IF PuissantInfo(txI).seq = PuissantInfo(txJ).seq
    THEN PuissantInfo(txI).inner < PuissantInfo(txJ).inner
    ELSE PuissantInfo(txI).seq < PuissantInfo(txJ).seq

\* (variant: at equal price a plain transaction goes before a package transaction)
LessPlainWinsTie(x, y) ==
    IF GasPrice(x) = GasPrice(y)
    THEN IF ~IsPuissant(x) /\ ~IsPuissant(y) THEN Time(x) < Time(y)
         ELSE IF IsPuissant(x) /\ IsPuissant(y) THEN bundleSort(x, y)
         ELSE IF IsPuissant(x) THEN FALSE
         ELSE TRUE
    ELSE GasPrice(x) > GasPrice(y)

Less(x, y) ==
    IF GasPrice(x) = GasPrice(y)
    THEN IF ~IsPuissant(x) /\ ~IsPuissant(y) THEN Time(x) < Time(y)
         ELSE IF IsPuissant(x) /\ IsPuissant(y) THEN bundleSort(x, y)
         ELSE IF IsPuissant(x) THEN TRUE
         ELSE FALSE
    ELSE GasPrice(x) > GasPrice(y)

(***************************************************************************)
(* sort.Sort on a queue of at most 12 entries is insertion sort:           *)
(*   for i := 1; i < n; i++ { for j := i; j > 0 && Less(j, j-1); j-- {     *)
(*       Swap(j, j-1) } }                                                  *)
(***************************************************************************)
Swap(s, i, j) == [s EXCEPT ![i] = s[j], ![j] = s[i]]

RECURSIVE SiftDown(_, _)
SiftDown(s, j) ==
    IF j > 1 /\ Less(s[j], s[j - 1]) THEN SiftDown(Swap(s, j, j - 1), j - 1) ELSE s

RECURSIVE InsertionSort(_, _)
InsertionSort(s, i) ==
    IF i > Len(s) THEN s ELSE InsertionSort(SiftDown(s, i), i + 1)

SortQueue(s) == InsertionSort(s, 2)

(***************************************************************************)
(* NewTransactionsPuissant(signer, txs, packages).  txs is a Go map, so    *)
(* the range loop visits its keys in an arbitrary order: order is that     *)
(* order.  packages is a list of transaction lists.  The result is the     *)
(* sorted queue, the map as the loop left it and the keys it deleted.      *)
(***************************************************************************)
\* (variant: an account whose signer does not match is skipped but left in the map)
RECURSIVE RangeAccountsNoDelete(_, _, _)
RangeAccountsNoDelete(txs, order, acc) ==
    IF order = <<>> THEN acc
    ELSE LET from == Head(order)
             accTxs == txs[from]
         IN IF Sender(accTxs[1]) # from
            THEN RangeAccountsNoDelete(txs, Tail(order), acc)
            ELSE RangeAccountsNoDelete(txs, Tail(order),
                     [acc EXCEPT !.heads = Append(@, accTxs[1]),
                                 !.rest = [@ EXCEPT ![from] = Tail(accTxs)]])

RECURSIVE RangeAccounts(_, _, _)
RangeAccounts(txs, order, acc) ==
    IF order = <<>> THEN acc
    ELSE LET from == Head(order)
             accTxs == txs[from]
         IN IF Sender(accTxs[1]) # from
            THEN RangeAccounts(txs, Tail(order),
                     [acc EXCEPT !.deleted = @ \cup {from}])
            ELSE RangeAccounts(txs, Tail(order),
                     [acc EXCEPT !.heads = Append(@, accTxs[1]),
                                 !.rest = [@ EXCEPT ![from] = Tail(accTxs)]])

RECURSIVE AppendPackages(_, _)
AppendPackages(q, packages) ==
    IF packages = <<>> THEN q
    ELSE AppendPackages(q \o Head(packages), Tail(packages))

NewTransactionsPuissant(txs, order, packages) ==
    LET r == RangeAccounts(txs, order, [heads |-> <<>>, rest |-> txs, deleted |-> {}])
        headsAndBundleTxs == AppendPackages(r.heads, packages)
    IN [queue |-> SortQueue(headsAndBundleTxs),
        txs |-> [a \in (DOMAIN txs) \ r.deleted |-> r.rest[a]],
        deleted |-> r.deleted]

(***************************************************************************)
(* A controller's fields, read through its references.                     *)
(***************************************************************************)
QueueOf(a, off) == SubSeq(a, off + 1, Len(a))
Queue(c) == QueueOf(arrs[ctl[c].arr], ctl[c].off)
Backlog(c) == maps[ctl[c].map]
Enabled(c) == sets[ctl[c].set]
Live(c) == ctl[c].live

\* (variant: the whole queue is dropped, not only its head)
PopOffAll(a, off) == Len(a)

\* Pop: t.txHeadsAndPuissant = t.txHeadsAndPuissant[1:] when the queue is not empty
PopOff(a, off) == IF Len(QueueOf(a, off)) > 0 THEN off + 1 ELSE off

\* (variant: a disabled head is popped once and the next entry is not examined)
PeekOffOnce(a, off, en) ==
    IF Len(QueueOf(a, off)) = 0 THEN off
    ELSE LET next == a[off + 1]
             pid == PuissantID(next)
         IN IF PidIsPuissant(pid) /\ pid \notin en THEN PopOff(a, off) ELSE off

\* Peek: the offset the recursion stops at, and what it returns there
RECURSIVE PeekOff(_, _, _)
PeekOff(a, off, en) ==
    IF Len(QueueOf(a, off)) = 0 THEN off
    ELSE LET next == a[off + 1]
             pid == PuissantID(next)
         IN IF PidIsPuissant(pid) /\ pid \notin en
            THEN PeekOff(a, PopOff(a, off), en)
            ELSE off

PeekRet(a, off, en) ==
    LET o == PeekOff(a, off, en)
    IN IF Len(QueueOf(a, o)) = 0 THEN Nil ELSE a[o + 1]

\* Shift, first branch: may the head be replaced from its account's backlog?
ShiftReplaces(a, off, m) ==
    LET head == a[off + 1]
        acc == Sender(head)
    IN /\ ~IsPuissant(head)
       /\ acc \in DOMAIN m
       /\ Len(m[acc]) > 0

\* (variant: the head is overwritten and the slice is left unsorted)
ShiftArrNoSort(a, off, m) ==
    LET acc == Sender(a[off + 1])
    IN [a EXCEPT ![off + 1] = m[acc][1]]

\* (variant: the next transaction is pushed in front of the head instead of replacing it)
ShiftArrKeepHead(a, off, m) ==
    LET acc == Sender(a[off + 1])
    IN SubSeq(a, 1, off) \o SortQueue(<<m[acc][1]>> \o QueueOf(a, off))

\* (variant: the sort runs over the whole backing array, popped entries included)
ShiftArrSortsArray(a, off, m) ==
    LET acc == Sender(a[off + 1])
    IN SortQueue([a EXCEPT ![off + 1] = m[acc][1]])

\* Shift, first branch: element 0 of the slice is overwritten, the slice sorted in place
ShiftArr(a, off, m) ==
    LET acc == Sender(a[off + 1])
        written == [a EXCEPT ![off + 1] = m[acc][1]]
    IN SubSeq(written, 1, off) \o SortQueue(QueueOf(written, off))

\* (variant: the promoted transaction is left in the backlog)
ShiftMapKeep(a, off, m) == m

ShiftMap(a, off, m) ==
    LET acc == Sender(a[off + 1])
    IN [m EXCEPT ![acc] = Tail(@)]

\* (variant: the set is not cleared first)
ResetEnableSetNoClear(enabled, pids) == enabled \cup pids

\* ResetEnable: t.enabled.Clear(), then t.enabled.Add(pid) for each given pid
ResetEnableSet(enabled, pids) == LET cleared == {} IN cleared \cup pids

\* (variant: the copy keeps the original's backing array and map)
CopyCtlShared(src, o) ==
    [ctl |-> [live |-> TRUE, arr |-> src.arr, off |-> src.off, map |-> src.map, set |-> o],
     arr |-> <<>>,
     map |-> <<>>,
     set |-> sets[src.set]]

\* Copy: a new backing array, a new map holding the same backlog slices, a cloned set
CopyCtl(src, o) ==
    [ctl |-> [live |-> TRUE, arr |-> o, off |-> 0, map |-> o, set |-> o],
     arr |-> QueueOf(arrs[src.arr], src.off),
     map |-> maps[src.map],
     set |-> sets[src.set]]

(***************************************************************************)
(* Inputs.  An account's list holds 1..MaxBacklog transactions, all signed *)
(* by the same sender: the account key, or (a stale mapping) someone else. *)
(* A package holds 1..MaxPkgLen transactions; innerSequence is the         *)
(* position in the package, packageSequence is the package's.              *)
(***************************************************************************)
OtherSigner == "Z"

PlainShapes == {<<>>} \cup UNION {[1..n -> PlainKinds] : n \in 1..MaxBacklog}
PkgShapes == {<<>>} \cup UNION {[1..n -> GasPrices] : n \in 1..MaxPkgLen}

AccountList(k, sh, f) == [i \in 1..Len(sh) |-> PlainTx(k, i, sh[i][1], sh[i][2], f)]
PackageList(p, sh) == [i \in 1..Len(sh) |-> PkgTx(p, i, sh[i])]

Perms(S) == {s \in [1..Cardinality(S) -> S] : \A i, j \in 1..Cardinality(S) : s[i] = s[j] => i = j}

RECURSIVE SumLen(_, _)
SumLen(f, S) ==
    IF S = {} THEN 0
    ELSE LET x == CHOOSE y \in S : TRUE IN Len(f[x]) + SumLen(f, S \ {x})

NoCtl == [live |-> FALSE, arr |-> "o1", off |-> 0, map |-> "o1", set |-> "o1"]
NoCmp == [op |-> "none", a |-> NilBig, b |-> NilBig, bump |-> [hi |-> 0, lo |-> 0],
          res |-> Returns(FALSE)]

NoLess == [op |-> "none", x |-> Nil, y |-> Nil, z |-> Nil, xx |-> FALSE, xy |-> FALSE,
           yx |-> FALSE, yz |-> FALSE, zy |-> FALSE, xz |-> FALSE, zx |-> FALSE]

\* The state after t := NewTransactionsPuissant(signer, txs, packages)
Built(txs, order, packages, w) ==
    LET n == NewTransactionsPuissant(txs, order, packages)
    IN /\ arrs = [o \in Objs |-> IF o = "o1" THEN n.queue ELSE <<>>]
       /\ maps = [o \in Objs |-> IF o = "o1" THEN n.txs ELSE <<>>]
       /\ sets = [o \in Objs |-> {}]
       /\ ctl = [c \in Ctls |-> IF c = "t"
                              THEN [live |-> TRUE, arr |-> "o1", off |-> 0,
                                    map |-> "o1", set |-> "o1"]
                              ELSE NoCtl]
       /\ dropped = n.deleted
       /\ input = [mismatched |-> {k \in DOMAIN txs : Sender(txs[k][1]) # k},
                   heads |-> {txs[k][1] : k \in {j \in DOMAIN txs : Sender(txs[j][1]) = j}},
                   packaged |-> UNION {{packages[i][j] : j \in 1..Len(packages[i])} :
                                          i \in 1..Len(packages)},
                   total |-> SumLen(txs, DOMAIN txs)
                                + SumLen(packages, 1..Len(packages))]
       /\ fault = FALSE
       /\ lastOn = "none"
       /\ watch = w
       /\ peekLog = <<>>
       /\ consumed = {}
       /\ phase = "built"
       /\ promoted = Nil
       /\ strict = TRUE
       /\ given = {}
       /\ purged = {}

InitFrom(plainShapes, pkgShapes, maxTxs, w) ==
    \E ash \in [Accounts -> plainShapes], signed \in SUBSET Accounts,
       psh \in [Pids -> pkgShapes] :
        LET present == {k \in Accounts : ash[k] # <<>>}
            txs == [k \in present |->
                       AccountList(k, ash[k], IF k \in signed THEN k ELSE OtherSigner)]
            pids == {p \in Pids : psh[p] # <<>>}
            total == SumLen(ash, Accounts) + SumLen(psh, Pids)
        IN /\ total <= maxTxs
           /\ Len(ash["A"]) >= Len(ash["B"])    \* the accounts are interchangeable
           /\ signed \subseteq present
           /\ \E order \in Perms(present), porder \in Perms(pids) :
                Built(txs, order, [i \in 1..Cardinality(pids) |->
                                      PackageList(porder[i], psh[porder[i]])], w)

Init ==
    /\ InitFrom(PlainShapes, PkgShapes, MaxTxs, TRUE)
    /\ pk = NoCmp
    /\ cmp = NoLess

(***************************************************************************)
(* The calls.  Each is one action on controller c.  In a watched run the   *)
(* history variables follow the consumer of controller "t":                *)
(*   phase = "built"   no call yet but ResetEnable                         *)
(*           "peeked"  the last call was a Peek that returned LastReturned *)
(*           "shift1"  exactly one Shift since that Peek, enabled set kept *)
(*           "pair"    as "peeked", and the Peek came after "shift1": the  *)
(*                     last two entries of peekLog are consecutive results *)
(*           "none"    the last call was a Peek that returned nil          *)
(*           "other"   anything else                                       *)
(***************************************************************************)
CanCall(c) == ~fault /\ Live(c)
Watched(c) == watch /\ c = "t"

LastReturned == IF peekLog = <<>> THEN Nil ELSE peekLog[Len(peekLog)]

Peek(c) ==
    /\ CanCall(c)
    /\ LET a == arrs[ctl[c].arr]
           off == PeekOff(a, ctl[c].off, Enabled(c))
           ret == PeekRet(a, ctl[c].off, Enabled(c))
       IN /\ ctl' = [ctl EXCEPT ![c].off = off]
          /\ lastOn' = c
          /\ IF Watched(c)
             THEN /\ peekLog' = IF ret = Nil \/ ret = LastReturned
                                THEN peekLog ELSE Append(peekLog, ret)
                  /\ phase' = IF ret = Nil THEN "none"
                              ELSE IF phase = "shift1" THEN "pair"
                              ELSE IF phase \in {"peeked", "pair"} THEN phase
                              ELSE "peeked"
                  /\ promoted' = IF ret # Nil /\ phase \in {"shift1", "pair"}
                                 THEN promoted ELSE Nil
                  /\ purged' = purged \cup {a[i] : i \in (ctl[c].off + 1)..off}
             ELSE UNCHANGED <<peekLog, phase, promoted, purged>>
    /\ UNCHANGED <<arrs, maps, sets, fault, watch, consumed, strict, given, dropped, input, pk, cmp>>

Pop(c) ==
    /\ CanCall(c)
    /\ ctl' = [ctl EXCEPT ![c].off = PopOff(arrs[ctl[c].arr], @)]
    /\ lastOn' = c
    /\ IF Watched(c)
       THEN phase' = "other" /\ promoted' = Nil /\ strict' = FALSE
       ELSE UNCHANGED <<phase, promoted, strict>>
    /\ UNCHANGED <<arrs, maps, sets, fault, watch, peekLog, consumed, given, purged, dropped, input, pk, cmp>>

Shift(c) ==
    /\ CanCall(c)
    /\ lastOn' = c
    /\ LET a == arrs[ctl[c].arr]
           off == ctl[c].off
           m == Backlog(c)
           one == phase \in {"peeked", "pair"}
       IN IF Len(QueueOf(a, off)) = 0
          THEN \* t.txHeadsAndPuissant[0]: index out of range
               /\ fault' = TRUE
               /\ UNCHANGED <<arrs, maps, ctl, consumed, phase, promoted, strict>>
          ELSE /\ fault' = fault
               /\ IF ShiftReplaces(a, off, m)
                  THEN /\ arrs' = [arrs EXCEPT ![ctl[c].arr] = ShiftArr(a, off, m)]
                       /\ maps' = [maps EXCEPT ![ctl[c].map] = ShiftMap(a, off, m)]
                       /\ ctl' = ctl
                       /\ consumed' = IF Watched(c) THEN consumed \cup {a[off + 1]} ELSE consumed
                       /\ promoted' = IF Watched(c)
                                      THEN (IF one THEN m[Sender(a[off + 1])][1] ELSE Nil)
                                      ELSE promoted
                  ELSE /\ ctl' = [ctl EXCEPT ![c].off = PopOff(a, @)]
                       /\ promoted' = IF Watched(c) THEN Nil ELSE promoted
                       /\ UNCHANGED <<arrs, maps, consumed>>
               /\ phase' = IF ~Watched(c) THEN phase ELSE IF one THEN "shift1" ELSE "other"
               /\ strict' = IF Watched(c) THEN strict /\ one ELSE strict
    /\ UNCHANGED <<sets, watch, peekLog, given, purged, dropped, input, pk, cmp>>

ResetEnable(c, pids) ==
    /\ CanCall(c)
    /\ sets' = [sets EXCEPT ![ctl[c].set] = ResetEnableSet(@, pids)]
    /\ given' = IF Watched(c) THEN pids ELSE given
    /\ lastOn' = c
    /\ IF Watched(c) /\ phase # "built"
       THEN /\ strict' = FALSE
            /\ IF pids # Enabled(c)
               THEN phase' = "other" /\ promoted' = Nil
               ELSE UNCHANGED <<phase, promoted>>
       ELSE UNCHANGED <<phase, promoted, strict>>
    /\ UNCHANGED <<arrs, maps, ctl, fault, watch, peekLog, consumed, purged, dropped, input, pk, cmp>>

\* The package ids a caller can name: those of the packages given at construction
\* (their transactions stay in the backing array of "t" for good).
KnownPids == {PuissantID(arrs["o1"][i]) : i \in 1..Len(arrs["o1"])} \ {NoPid}

Next ==
    \/ Peek("t")
    \/ Pop("t")
    \/ Shift("t")
    \/ \E pids \in SUBSET KnownPids : ResetEnable("t", pids)

Spec == Init /\ [][Next]_vars

(***************************************************************************)
(* c := t.Copy(), once, and then the calls on either controller.           *)
(***************************************************************************)
Copy ==
    /\ CanCall("t")
    /\ ~Live("c")
    /\ LET r == CopyCtl(ctl["t"], "o2")
       IN /\ ctl' = [ctl EXCEPT !["c"] = r.ctl]
          /\ arrs' = [arrs EXCEPT !["o2"] = r.arr]
          /\ maps' = [maps EXCEPT !["o2"] = r.map]
          /\ sets' = [sets EXCEPT !["o2"] = r.set]
    /\ lastOn' = "t"
    /\ UNCHANGED <<fault, watch, peekLog, consumed, phase, promoted, strict, given, purged, dropped, input, pk, cmp>>

CallsOn(c) ==
    \/ Peek(c)
    \/ Pop(c)
    \/ Shift(c)
    \/ \E pids \in SUBSET KnownPids : ResetEnable(c, pids)

InitCopy ==
    /\ InitFrom(PlainShapes, PkgShapes, MaxCopyTxs, FALSE)
    /\ pk = NoCmp
    /\ cmp = NoLess

NextCopy ==
    \/ Copy
    \/ CallsOn("t")
    \/ CallsOn("c")

SpecCopy == InitCopy /\ [][NextCopy]_vars

(***************************************************************************)
(* The reference scenario: accounts A = [a1 gp 5, a2 gp 5], B = [b1 gp 7], *)
(* one package P1 (packageSequence 1) = [p1 gp 5, p2 gp 5].                *)
(***************************************************************************)
InitScenario ==
    /\ \E ta \in [1..2 -> {k \in PlainKinds : k[1] = 5}], tb \in {k \in PlainKinds : k[1] = 7},
          order \in Perms({"A", "B"}) :
            Built([k \in {"A", "B"} |-> IF k = "A" THEN AccountList("A", ta, "A")
                                                   ELSE AccountList("B", <<tb>>, "B")],
                  order,
                  <<PackageList("P1", <<5, 5>>)>>, TRUE)
    /\ pk = NoCmp
    /\ cmp = NoLess

SpecScenario == InitScenario /\ [][Next]_vars

(***************************************************************************)
(* The package comparisons, called on bid prices drawn from a small set    *)
(* (absent ones included) and on bumps from both ends of uint64.           *)
(***************************************************************************)
BidPrices == {NilBig} \cup {Big(n) : n \in {0, 99, 100, 110, 111}}
Bumps == {[hi |-> 0, lo |-> n] : n \in {0, 10, 11}} \cup {[hi |-> 1, lo |-> -n] : n \in {1, 90}}
NoBump == [hi |-> 0, lo |-> 0]

ctlUnchanged ==
    UNCHANGED <<arrs, maps, sets, ctl, fault, lastOn, watch, peekLog, consumed, phase, promoted, strict,
                given, purged, dropped, input, cmp>>

CallHigherBidGasPrice ==
    ctlUnchanged /\ \E pp, with \in BidPrices : \E r \in HigherBidGasPrice(pp, with) :
        pk' = [op |-> "HigherBidGasPrice", a |-> pp, b |-> with, bump |-> NoBump, res |-> r]

CallHigherBidGasPriceIntCmp ==
    ctlUnchanged /\ \E pp, with \in BidPrices : \E r \in HigherBidGasPriceIntCmp(pp, with) :
        pk' = [op |-> "HigherBidGasPriceIntCmp", a |-> pp, b |-> with, bump |-> NoBump, res |-> r]

CallReplacedByNewPuissant ==
    ctlUnchanged /\ \E pp, np \in BidPrices, priceBump \in Bumps : \E r \in ReplacedByNewPuissant(pp, np, priceBump) :
        pk' = [op |-> "ReplacedByNewPuissant", a |-> pp, b |-> np, bump |-> priceBump, res |-> r]

CallPackagesLess ==
    ctlUnchanged /\ \E x, y \in BidPrices : \E r \in PackagesLess(<<x, y>>, 1, 2) :
        pk' = [op |-> "PuissantPackages.Less", a |-> x, b |-> y, bump |-> NoBump, res |-> r]

InitPkg ==
    /\ InitFrom({<<>>}, {<<>>}, 0, FALSE)
    /\ pk = NoCmp
    /\ cmp = NoLess

NextPkg ==
    \/ CallHigherBidGasPrice
    \/ CallHigherBidGasPriceIntCmp
    \/ CallReplacedByNewPuissant
    \/ CallPackagesLess

SpecPkg == InitPkg /\ [][NextPkg]_vars

(***************************************************************************)
(* puissantTxQueue.Less, called on every pair of three queue entries: the  *)
(* heads of accounts and the transactions of packages.                     *)
(***************************************************************************)
LessEntries ==
    {PlainTx(k, 1, g[1], g[2], k) : k \in Accounts, g \in PlainKinds}
        \cup {PkgTx(q, i, g) : q \in Pids, i \in 1..MaxPkgLen, g \in GasPrices}

CallLess ==
    /\ cmp.op = "none"
    /\ \E x, y, z \in LessEntries :
           cmp' = [op |-> "Less", x |-> x, y |-> y, z |-> z,
                   xx |-> Less(x, x), xy |-> Less(x, y), yx |-> Less(y, x),
                   yz |-> Less(y, z), zy |-> Less(z, y),
                   xz |-> Less(x, z), zx |-> Less(z, x)]
    /\ UNCHANGED <<arrs, maps, sets, ctl, fault, lastOn, watch, peekLog, consumed, phase,
                   promoted, strict, given, purged, dropped, input, pk>>

InitLess ==
    /\ InitFrom({<<>>}, {<<>>}, 0, FALSE)
    /\ pk = NoCmp
    /\ cmp = NoLess

NextLess == CallLess

SpecLess == InitLess /\ [][NextLess]_vars

(***************************************************************************)
(* Properties.                                                             *)
(***************************************************************************)
ViewOf(c) == [queue |-> Queue(c), backlog |-> Backlog(c), enabled |-> Enabled(c)]

\* The tie-break rule as the specification words it: may x go before y at equal price?
TieRanksBefore(x, y) ==
    \/ ~IsPuissant(x) /\ ~IsPuissant(y) /\ x.time < y.time
    \/ IsPuissant(x) /\ IsPuissant(y)
         /\ (x.pseq < y.pseq \/ (x.pseq = y.pseq /\ x.inner < y.inner))
    \/ IsPuissant(x) /\ ~IsPuissant(y)

\* first, then second, respects the order: price not increasing, tie-break not inverted
InOrder(first, second) ==
    /\ first.gp >= second.gp
    /\ first.gp = second.gp => ~TieRanksBefore(second, first)

FirstOfPair == peekLog[Len(peekLog) - 1]
SecondOfPair == peekLog[Len(peekLog)]

\* C1 as stated: any two transactions Peek returns consecutively, around one Shift and
\* with the enabled set kept, are in order (gas price not increasing, tie-break kept).
C1_OrderingAsStated == phase = "pair" => InOrder(FirstOfPair, SecondOfPair)

\* C1, amended: two transactions Peek returns consecutively, around one Shift and with
\* the enabled set kept, are in order unless the second is the transaction that Shift
\* pulled from the backlog of the first one's account.
C1_Ordering ==
    phase = "pair" => \/ InOrder(FirstOfPair, SecondOfPair)
                      \/ /\ promoted # Nil
                         /\ SecondOfPair = promoted
                         /\ SecondOfPair.key = FirstOfPair.key
                         /\ SecondOfPair.idx = FirstOfPair.idx + 1

\* C1 witness: a Shift pulled a backlog transaction in, and the next Peek returned
\* another entry, tied in price with the one returned before.
C1_Witness ==
    /\ phase = "pair"
    /\ promoted # Nil
    /\ SecondOfPair # promoted
    /\ SecondOfPair.gp = FirstOfPair.gp

PlainOf(k, q) == {i \in 1..Len(q) : ~IsPuissant(q[i]) /\ q[i].key = k}

\* C2: the queue never holds two plain transactions of one account; an account's plain
\* transactions are returned by Peek in the order of its input list; and the k-th is
\* returned only after Shift consumed the (k-1)-th.
C2_AccountSequencing ==
    \A k \in Accounts :
        /\ Cardinality(PlainOf(k, Queue("t"))) <= 1
        /\ \A i, j \in PlainOf(k, peekLog) : i < j => peekLog[i].idx < peekLog[j].idx
        /\ \A i \in PlainOf(k, peekLog) :
               peekLog[i].idx > 1 =>
                   \E x \in consumed : x.key = k /\ x.idx = peekLog[i].idx - 1

\* C2 witness: Peek has returned the first and then the second transaction of account A.
C2_Witness ==
    \E i, j \in PlainOf("A", peekLog) : i < j /\ peekLog[i].idx = 1 /\ peekLog[j].idx = 2

\* C3: after c := t.Copy(), no call on c changes t's queue, backlog or enabled set,
\* and no call on t changes c's.
C3_SnapshotIsolation ==
    [][/\ lastOn' = "c" => ViewOf("t")' = ViewOf("t")
       /\ (Live("c") /\ lastOn' = "t") => ViewOf("c")' = ViewOf("c")]_vars

\* C3 witness: a Shift on the copy has pulled a backlog transaction into the copy's
\* queue, and t still has its own queue and backlog.
C3_Witness ==
    /\ Live("c")
    /\ lastOn = "c"
    /\ \E k \in DOMAIN Backlog("t") : Len(Backlog("c")[k]) < Len(Backlog("t")[k])
    /\ Queue("c") # Queue("t")

\* C4: a transaction Peek has just returned is plain, or of a package whose id is among
\* the identifiers given to the most recent ResetEnable (none before the first one).
C4_Eligibility ==
    phase \in {"peeked", "pair"} =>
        \/ ~IsPuissant(LastReturned)
        \/ PuissantID(LastReturned) \in given

\* C4 witness: Peek returned a package transaction while another package is disabled,
\* after a ResetEnable that took a package back out of the set.
C4_Witness ==
    /\ phase \in {"peeked", "pair"}
    /\ IsPuissant(LastReturned)
    /\ given # KnownPids
    /\ ctl["t"].off > 0

\* C5: a Peek that follows a Peek changes nothing and (phase and peekLog being kept)
\* returns what the first returned.
C5_PeekIdempotent ==
    [][(phase \in {"peeked", "pair", "none"} /\ Peek("t")) => UNCHANGED vars]_vars

\* C5 witness: Peek has purged a disabled head and returned a transaction.
C5_Witness ==
    /\ phase = "peeked"
    /\ \E i \in 1..ctl["t"].off :
           LET x == arrs["o1"][i] IN IsPuissant(x) /\ PuissantID(x) \notin given

\* C6 as stated: on an empty queue Shift and Pop do not fault and change nothing.
C6_EmptyQueueNoFault ==
    [][(Queue("t") = <<>> /\ (Shift("t") \/ Pop("t")))
          => (~fault' /\ ViewOf("t")' = ViewOf("t"))]_vars

\* 100 + priceBump, times the incumbent's bid, as the number hi * 2^64 + lo
ExactOld(pp, priceBump) == [hi |-> pp.v * priceBump.hi, lo |-> pp.v * (100 + priceBump.lo)]

\* np * 100 > pp * (100 + priceBump) in exact arithmetic (|lo| is far below 2^64)
ExactExceeds(pp, np, priceBump) ==
    LET old == ExactOld(pp, priceBump)
    IN IF old.hi > 0 THEN FALSE
       ELSE IF old.hi < 0 THEN TRUE
       ELSE np.v * 100 > old.lo

\* C7 as stated: with both bid prices present, ReplacedByNewPuissant is true exactly when
\* np.bidGasPrice * 100 > pp.bidGasPrice * (100 + priceBump), for every priceBump.
C7_ReplacementThreshold ==
    (pk.op = "ReplacedByNewPuissant" /\ ~pk.a.nil /\ ~pk.b.nil) =>
        /\ ~pk.res.panic
        /\ pk.res.val = ExactExceeds(pk.a, pk.b, pk.bump)

\* C8 as stated: a comparison given an absent bid price does not fault, and the side
\* with the absent price does not compare as higher (an absent candidate never replaces).
C8_AbsentBidPrice ==
    (pk.op # "none" /\ (pk.a.nil \/ pk.b.nil)) =>
        /\ ~pk.res.panic
        /\ (pk.op # "ReplacedByNewPuissant" /\ pk.a.nil) => ~pk.res.val
        /\ (pk.op = "ReplacedByNewPuissant" /\ pk.b.nil) => ~pk.res.val

Names(log) == [i \in 1..Len(log) |-> <<log[i].key, log[i].idx>>]

\* C9: in the reference scenario a consumer that only loops Peek, Shift until Peek
\* returns none has seen b1, p1, p2, a1, a2 with P1 enabled before consumption, and
\* b1, a1, a2 with P1 not enabled.
C9_ReferenceScenario ==
    (strict /\ phase = "none") =>
        /\ given = {"P1"} =>
              Names(peekLog) = <<(<<"B", 1>>), <<"P1", 1>>, <<"P1", 2>>, <<"A", 1>>, <<"A", 2>>>>
        /\ given = {} => Names(peekLog) = <<(<<"B", 1>>), <<"A", 1>>, <<"A", 2>>>>

\* C9 witness: the loop has run to the end with P1 enabled.
C9_Witness == strict /\ phase = "none" /\ given = {"P1"} /\ Len(peekLog) = 5

\* C10: of two transactions of one package with the same gas price that Peek both
\* returned, the one with the lower innerSequence was returned first.
C10_PackageTieOrder ==
    \A i, j \in 1..Len(peekLog) :
        (/\ i < j
         /\ IsPuissant(peekLog[i])
         /\ PuissantID(peekLog[i]) = PuissantID(peekLog[j])
         /\ peekLog[i].gp = peekLog[j].gp)
            => peekLog[i].inner < peekLog[j].inner

\* C10 witness: Peek has returned two transactions of one package that tie in gas price.
C10_Witness ==
    \E i, j \in 1..Len(peekLog) :
        /\ i < j
        /\ IsPuissant(peekLog[i])
        /\ PuissantID(peekLog[i]) = PuissantID(peekLog[j])
        /\ peekLog[i].gp = peekLog[j].gp

\* C11 as stated: in a run where the enabled set is fixed before consumption starts, two
\* transactions of one package that Peek both returned were returned in the order of
\* the package's list (ascending innerSequence), whatever their gas prices.
C11_BundleInternalOrder ==
    strict =>
        \A i, j \in 1..Len(peekLog) :
            (/\ i < j
             /\ IsPuissant(peekLog[i])
             /\ PuissantID(peekLog[i]) = PuissantID(peekLog[j]))
                => peekLog[i].inner < peekLog[j].inner

\* The entries that left the queue of c at its head (Pop, Shift without a replacement,
\* Peek's purge): the part of the backing array before the slice.
Removed(c) == SubSeq(arrs[ctl[c].arr], 1, ctl[c].off)

\* account k lost its candidate at the head while transactions of its list were left
Forfeited(k) == PlainOf(k, Removed("t")) # {}

\* every package transaction given at construction is in the queue unless it left at the head
PackagesQueued ==
    \A i \in 1..Len(arrs["o1"]) :
        IsPuissant(arrs["o1"][i]) =>
            \E j \in 1..Len(Removed("t") \o Queue("t")) : (Removed("t") \o Queue("t"))[j] = arrs["o1"][i]

NothingEligible ==
    \A i \in 1..Len(Queue("t")) :
        IsPuissant(Queue("t")[i]) /\ PuissantID(Queue("t")[i]) \notin Enabled("t")

\* C13: a Peek on a queue that is empty or holds only transactions of packages not
\* enabled returns none and leaves the queue empty; and an empty queue stays empty
\* through every later call (so every later Peek returns none again).
C13_Exhaustion ==
    [][/\ (NothingEligible /\ Peek("t")) => (Queue("t")' = <<>> /\ phase' = "none")
       /\ Queue("t") = <<>> => Queue("t")' = <<>>]_vars

\* C13 witness: Peek purged the whole queue and returned none, the purged package was
\* enabled afterwards, and Peek returned none again.
C13_Witness ==
    /\ phase = "none"
    /\ peekLog = <<>>
    /\ Queue("t") = <<>>
    /\ \E x \in purged : PuissantID(x) \in given

\* y could be returned by Peek on "t": plain, or of an enabled package
Eligible(y) == ~IsPuissant(y) \/ PuissantID(y) \in Enabled("t")

\* C14: when Peek has just returned x, no eligible entry of the queue ranks strictly
\* before x under the comparator, and none has a strictly higher gas price.
C14_BestCandidate ==
    phase \in {"peeked", "pair"} =>
        \A i \in 1..Len(Queue("t")) :
            Eligible(Queue("t")[i]) =>
                /\ ~Less(Queue("t")[i], LastReturned)
                /\ Queue("t")[i].gp <= LastReturned.gp

\* C14 witness: Peek returned an entry other than the transaction the Shift before it
\* pulled in, which sits further back in the queue.
C14_Witness ==
    /\ phase = "pair"
    /\ promoted # Nil
    /\ LastReturned # promoted
    /\ \E i \in 2..Len(Queue("t")) : Queue("t")[i] = promoted

Sorted(q) == \A i, j \in 1..Len(q) : i < j => ~Less(q[j], q[i])
Entries(q) == {q[i] : i \in 1..Len(q)}
HeadHasBacklog ==
    LET head == Queue("t")[1]
    IN /\ ~IsPuissant(head)
       /\ head.from \in DOMAIN Backlog("t")
       /\ Backlog("t")[head.from] # <<>>

\* C15: Shift on a plain head whose account has backlog keeps the queue's length, puts
\* the account's first backlog transaction in place of the head, takes it off that
\* backlog, leaves the other backlogs and the enabled set alone and leaves the queue
\* sorted; in every other case Shift does what Pop does.
C15_ShiftEffect ==
    [][(Queue("t") # <<>> /\ Shift("t")) =>
          IF HeadHasBacklog
          THEN LET acc == Queue("t")[1].from
               IN /\ Len(Queue("t")') = Len(Queue("t"))
                  /\ Entries(Queue("t")') =
                        (Entries(Queue("t")) \ {Queue("t")[1]}) \cup {Backlog("t")[acc][1]}
                  /\ Backlog("t")' = [Backlog("t") EXCEPT ![acc] = Tail(@)]
                  /\ Enabled("t")' = Enabled("t")
                  /\ Sorted(Queue("t")')
          ELSE /\ Queue("t")' = Tail(Queue("t"))
               /\ Backlog("t")' = Backlog("t")
               /\ Enabled("t")' = Enabled("t")]_vars

\* C15 witness: Shift pulled a backlog transaction in and the sort moved it behind
\* another entry.
C15_Witness ==
    /\ phase = "shift1"
    /\ promoted # Nil
    /\ \E i \in 2..Len(Queue("t")) : Queue("t")[i] = promoted

\* C16: Pop on a non-empty queue removes the head and changes nothing else; once an
\* account's plain candidate left the queue that way, no transaction of the backlog
\* the account has left is ever returned by Peek; and the entries that stay (the other
\* transactions of a popped package transaction's package among them) are returned by
\* Peek when they are at the head and eligible.
C16_PopEffect ==
    [][/\ (Queue("t") # <<>> /\ Pop("t")) =>
              /\ Queue("t")' = Tail(Queue("t"))
              /\ Backlog("t")' = Backlog("t")
              /\ Enabled("t")' = Enabled("t")
       /\ \A k \in DOMAIN Backlog("t") :
              Forfeited(k) =>
                  /\ Backlog("t")'[k] = Backlog("t")[k]
                  /\ Entries(Backlog("t")[k]) \cap Entries(peekLog') = {}
       /\ (Queue("t") # <<>> /\ Eligible(Queue("t")[1]) /\ Peek("t")) =>
              /\ Queue("t")' = Queue("t")
              /\ LastReturned' = Queue("t")[1]]_vars

\* C16 witness: Pop removed the candidate of an account with backlog left, and the
\* consumer has since run to the point where Peek returns none.
C16_Witness ==
    /\ phase = "none"
    /\ \E k \in DOMAIN Backlog("t") : Forfeited(k) /\ Backlog("t")[k] # <<>>

\* C17: ResetEnable(ids) makes the enabled set exactly the given identifiers and leaves
\* the queue (transactions of disabled packages included) and the backlog as they were.
C17_ResetEnableEffect ==
    [][(\E pids \in SUBSET KnownPids : ResetEnable("t", pids)) =>
          /\ Enabled("t")' = given'
          /\ Queue("t")' = Queue("t")
          /\ Backlog("t")' = Backlog("t")]_vars

\* C17 witness: a package whose transaction Peek returned has been taken out of the
\* enabled set by a later ResetEnable, and that transaction is still in the queue.
C17_Witness ==
    /\ phase = "other"
    /\ Queue("t") # <<>>
    /\ Queue("t")[1] = LastReturned
    /\ IsPuissant(LastReturned)
    /\ PuissantID(LastReturned) \notin Enabled("t")

\* C18: a package transaction that Peek popped because its package was not enabled is
\* never in the queue again and is never what a later Peek returns, whatever
\* ResetEnable enables afterwards.
C18_PermanentPurge ==
    \A x \in purged :
        /\ x \notin Entries(Queue("t"))
        /\ phase \in {"peeked", "pair"} => LastReturned # x

\* C18 witness: Peek purged a transaction of a package, the package was enabled later,
\* and Peek returned another transaction of that package.
C18_Witness ==
    /\ phase \in {"peeked", "pair"}
    /\ IsPuissant(LastReturned)
    /\ PuissantID(LastReturned) \in Enabled("t")
    /\ \E x \in purged : PuissantID(x) = PuissantID(LastReturned)

\* C19: no transaction of an account whose first transaction's sender differs from the
\* key is in the queue, kept in the backlog or returned by Peek; construction does not
\* fault, and right after it the queue holds the head of every other account and every
\* package transaction.
C19_SignerMismatch ==
    /\ \A k \in input.mismatched :
           /\ k \notin DOMAIN Backlog("t")
           /\ \A x \in Entries(arrs["o1"]) \cup Entries(peekLog) : x.key # k
    /\ lastOn = "none" =>
           /\ ~fault
           /\ Entries(Queue("t")) = input.heads \cup input.packaged
           /\ Len(Queue("t")) = Cardinality(input.heads \cup input.packaged)

\* C19 witness: an account was excluded for its signer, and the consumer has been
\* given the rest, to the point where Peek returns none.
C19_Witness ==
    /\ input.mismatched # {}
    /\ peekLog # <<>>
    /\ phase = "none"

\* C20: Less is a strict weak order (irreflexive, asymmetric, transitive, with
\* transitive incomparability), and ranks x before y exactly when x has the higher gas
\* price, or the prices are equal and the tie-break rule puts x first.
C20_Comparator ==
    cmp.op = "Less" =>
        /\ ~cmp.xx
        /\ ~(cmp.xy /\ cmp.yx)
        /\ (cmp.xy /\ cmp.yz) => cmp.xz
        /\ (~cmp.xy /\ ~cmp.yx /\ ~cmp.yz /\ ~cmp.zy) => (~cmp.xz /\ ~cmp.zx)
        /\ cmp.xy = (\/ cmp.x.gp > cmp.y.gp
                     \/ cmp.x.gp = cmp.y.gp /\ TieRanksBefore(cmp.x, cmp.y))

\* C20 witness: at one gas price a package transaction ranked before a plain one, which
\* ranked before a later plain one.
C20_Witness ==
    /\ cmp.op = "Less"
    /\ IsPuissant(cmp.x) /\ ~IsPuissant(cmp.y) /\ ~IsPuissant(cmp.z)
    /\ cmp.x.gp = cmp.y.gp /\ cmp.y.gp = cmp.z.gp
    /\ cmp.xy /\ cmp.yz /\ cmp.xz

\* queue length + total backlog length of "t"
Measure == Len(Queue("t")) + SumLen(Backlog("t"), DOMAIN Backlog("t"))

\* the Shift and Pop calls made on a non-empty queue of "t" so far: the entries that
\* left at the head other than by Peek's purge, and those a Shift replaced
StepsTaken == (ctl["t"].off - Cardinality(purged)) + Cardinality(consumed)

\* C21: every Shift or Pop on a non-empty queue lowers queue length + total backlog
\* length by exactly one, no other call (Peek, ResetEnable) raises it or counts as a
\* step, and the Shift and Pop calls made on a non-empty queue plus what is left never
\* exceed the number of transactions given at construction (so after that many the
\* queue is empty, where Peek returns none).
C21_Termination ==
    [][/\ IF Queue("t") # <<>> /\ (Shift("t") \/ Pop("t"))
          THEN Measure' = Measure - 1 /\ StepsTaken' = StepsTaken + 1
          ELSE Measure' <= Measure /\ StepsTaken' = StepsTaken
       /\ StepsTaken' + Measure' <= input.total
       /\ (StepsTaken' = input.total => Queue("t")' = <<>>)
       /\ Queue("t")' = <<>> => phase' \notin {"peeked", "pair"}]_vars

\* C21 witness: the consumer made as many Shift and Pop calls as there were
\* transactions at construction, and Peek then returned none.
C21_Witness ==
    /\ input.total >= 2
    /\ StepsTaken = input.total
    /\ phase = "none"

====
